---- MODULE Spec2Model ----
(***************************************************************************)
(* Timetable page of the school management dashboard                       *)
(* (src/src/pages/Timetables.tsx with the timetablesApi of the API layer). *)
(*                                                                         *)
(* Two specifications share the pure operators below:                      *)
(*   Spec        the page as a state machine: class / school selection,    *)
(*               overlapping timetable fetches, cell edits with the        *)
(*               conflict check, and the sequential per-day save;          *)
(*   EngineSpec  the grid transforms applied as functions to inputs drawn  *)
(*               from bounded sets (malformed records, out-of-range cell   *)
(*               coordinates).                                             *)
(***************************************************************************)
EXTENDS Integers, Sequences, FiniteSets, TLC

(***************************************************************************)
(* Fixed configuration                                                     *)
(***************************************************************************)
DAYS ==
  <<"Monday", "Tuesday", "Wednesday", "Thursday", "Friday", "Saturday">>

DEFAULT_PERIODS ==
  << [startTime |-> "08:00", endTime |-> "08:45"],
     [startTime |-> "08:45", endTime |-> "09:30"],
     [startTime |-> "09:45", endTime |-> "10:30"],
     [startTime |-> "10:30", endTime |-> "11:15"],
     [startTime |-> "11:30", endTime |-> "12:15"],
     [startTime |-> "12:15", endTime |-> "13:00"],
     [startTime |-> "14:00", endTime |-> "14:45"],
     [startTime |-> "14:45", endTime |-> "15:30"] >>

DaySet == { DAYS[k] : k \in 1..Len(DAYS) }

PeriodCount == Len(DEFAULT_PERIODS)

PeriodIdx == 0..(PeriodCount - 1)

(***************************************************************************)
(* JavaScript values.  A property that is missing from an object reads as  *)
(* undefined; "" and undefined are both falsy.                             *)
(***************************************************************************)
Undef == "<undefined>"

EmptyObj == [k \in {} |-> Undef]

Get(obj, f) == IF f \in DOMAIN obj THEN obj[f] ELSE Undef

Falsy(v) == v \in {"", Undef}

\* v || ""
OrEmpty(v) == IF Falsy(v) THEN "" ELSE v

(***************************************************************************)
(* The grid: day -> (period index -> slot).  Objects are functions, a key  *)
(* that was never assigned is outside the DOMAIN.                          *)
(***************************************************************************)
DefaultSlot == [subject |-> "", teacher_id |-> ""]

\* grid[day]?.[index]  (EmptyObj stands for undefined: every field reads Undef)
SlotAt(g, day, i) ==
  IF day \in DOMAIN g /\ i \in DOMAIN g[day] THEN g[day][i] ELSE EmptyObj

SlotKeys(g) == UNION { { <<d, i>> : i \in DOMAIN g[d] } : d \in DOMAIN g }

FullSlots == DaySet \X PeriodIdx

\* the all-default grid built by both branches of fetchTimetable
DefaultGrid ==
  [d \in DaySet |-> [i \in PeriodIdx |-> DefaultSlot]]

\* faulty variant: the overlay copies the subject and resets the teacher
OverlayRecordSubjectOnly(g, timetable) ==
  IF "periods" \notin DOMAIN timetable THEN g
  ELSE IF Get(timetable, "day") \notin DOMAIN g THEN g
  ELSE LET ps == timetable.periods
           d  == timetable.day
       IN  [g EXCEPT ![d] =
             [i \in (DOMAIN g[d]) \cup (0..(Len(ps) - 1)) |->
                IF i < Len(ps)
                  THEN [subject    |-> OrEmpty(Get(ps[i + 1], "subject")),
                        teacher_id |-> ""]
                  ELSE g[d][i]]]

\* one persisted record laid over the grid, position by position
OverlayRecord(g, timetable) ==
  IF "periods" \notin DOMAIN timetable THEN g
  ELSE IF Get(timetable, "day") \notin DOMAIN g THEN g
  ELSE LET ps == timetable.periods
           d  == timetable.day
       IN  [g EXCEPT ![d] =
             [i \in (DOMAIN g[d]) \cup (0..(Len(ps) - 1)) |->
                IF i < Len(ps)
                  THEN [subject    |-> OrEmpty(Get(ps[i + 1], "subject")),
                        teacher_id |-> OrEmpty(Get(ps[i + 1], "teacher_id"))]
                  ELSE g[d][i]]]

RECURSIVE OverlayAll(_, _)
OverlayAll(g, data) ==
  IF data = <<>> THEN g
  ELSE OverlayAll(OverlayRecord(g, Head(data)), Tail(data))

\* fetchTimetable, try branch: API data -> grid
Hydrate(data) == OverlayAll(DefaultGrid, data)

(***************************************************************************)
(* updateSlot: the functional update handed to setTimetableGrid.           *)
(***************************************************************************)
\* prev[day] is undefined: reading prev[day][periodIndex] throws a TypeError
UpdaterThrows(prev, day) == day \notin DOMAIN prev

\* faulty variant: the slot is rebuilt from the edited field alone
MergeFieldDropsRest(slot, field, value) ==
  [f \in {field} |-> value]

\* { ...prev[day][periodIndex], [field]: value }
MergeField(slot, field, value) ==
  [f \in (DOMAIN slot) \cup {field} |-> IF f = field THEN value ELSE slot[f]]

\* faulty variant: the day is rebuilt from the edited slot alone (...prev[day] left out)
SetSlotDropsDay(prev, day, periodIndex, field, value) ==
  [prev EXCEPT ![day] =
    [i \in {periodIndex} |->
       MergeField(SlotAt(prev, day, periodIndex), field, value)]]

\* { ...prev, [day]: { ...prev[day], [periodIndex]: {...} } }, day \in DOMAIN prev
SetSlot(prev, day, periodIndex, field, value) ==
  [prev EXCEPT ![day] =
    [i \in (DOMAIN prev[day]) \cup {periodIndex} |->
       IF i = periodIndex
         THEN MergeField(SlotAt(prev, day, periodIndex), field, value)
         ELSE prev[day][i]]]

(***************************************************************************)
(* checkConflicts                                                          *)
(***************************************************************************)
\* faulty variant: a teacher that is not found is reported under its id
FindTeacherOrId(dir, teacherId) ==
  LET hits == { k \in 1..Len(dir) : dir[k].id = teacherId }
  IN  IF hits = {} THEN teacherId
      ELSE dir[CHOOSE k \in hits : \A j \in hits : k <= j].name

\* teachers.find((t) => t.id === teacherId): the first match, or undefined
FindTeacher(dir, teacherId) ==
  LET hits == { k \in 1..Len(dir) : dir[k].id = teacherId }
  IN  IF hits = {} THEN Undef
      ELSE dir[CHOOSE k \in hits : \A j \in hits : k <= j].name

\* faulty variant: the message quotes the end of the period
MessageQuotesEndTime(name, periodIndex, day) ==
  <<name, " is already assigned at ",
    DEFAULT_PERIODS[periodIndex + 1].endTime, " on ", day>>

\* `${teacher.name} is already assigned at ${startTime} on ${day}`
Message(name, periodIndex, day) ==
  <<name, " is already assigned at ",
    DEFAULT_PERIODS[periodIndex + 1].startTime, " on ", day>>

\* faulty variant: the scan accepts the period index on every day
MatchingSlotsAnyDay(g, day, periodIndex, teacherId) ==
  { k \in SlotKeys(g) :
      /\ k[2] = periodIndex
      /\ Get(g[k[1]][k[2]], "teacher_id") = teacherId }

\* the slots of g the scan accepts
MatchingSlots(g, day, periodIndex, teacherId) ==
  { k \in SlotKeys(g) :
      /\ k[1] = day
      /\ k[2] = periodIndex
      /\ Get(g[k[1]][k[2]], "teacher_id") = teacherId }

\* conflictMessages: one message per accepted slot, if the teacher resolves
ConflictMessages(g, day, periodIndex, teacherId, dir) ==
  LET n    == Cardinality(MatchingSlots(g, day, periodIndex, teacherId))
      name == FindTeacher(dir, teacherId)
  IN  IF name = Undef \/ periodIndex \notin PeriodIdx THEN <<>>
      ELSE [k \in 1..n |-> Message(name, periodIndex, day)]

\* DEFAULT_PERIODS[periodIndex] is undefined: reading .startTime throws
ConflictThrows(g, day, periodIndex, teacherId, dir) ==
  /\ MatchingSlots(g, day, periodIndex, teacherId) # {}
  /\ FindTeacher(dir, teacherId) # Undef
  /\ periodIndex \notin PeriodIdx

\* the grid checkConflicts reads is the timetableGrid of the render that
\* created updateSlot, not the grid the queued updater will produce
ScannedGrid(rendered, updated) == rendered

\* [...new Set(xs)]: first occurrences, in order
RECURSIVE Dedup(_)
Dedup(xs) ==
  IF xs = <<>> THEN <<>>
  ELSE LET init == Dedup(SubSeq(xs, 1, Len(xs) - 1))
           last == xs[Len(xs)]
       IN  IF \E k \in 1..Len(init) : init[k] = last THEN init
           ELSE Append(init, last)

\* faulty variant: the previous messages are not spread into the Set
AddConflictsNewOnly(prev, msgs) ==
  IF Len(msgs) > 0 THEN Dedup(msgs) ELSE prev

\* faulty variant: setConflicts is called with the result of every check
AddConflictsResets(prev, msgs) ==
  IF Len(msgs) > 0 THEN Dedup(prev \o msgs) ELSE <<>>

\* faulty variant: the new messages are appended without the Set
AddConflictsKeepsAll(prev, msgs) == prev \o msgs

\* setConflicts((prev) => [...new Set([...prev, ...conflictMessages])]),
\* skipped when conflictMessages is empty
AddConflicts(prev, msgs) ==
  IF Len(msgs) > 0 THEN Dedup(prev \o msgs) ELSE prev

(***************************************************************************)
(* handleSave: the record built for one day                                *)
(***************************************************************************)
\* faulty variant: teacher_id copied as it is, the empty value is sent
PeriodOfKeepsTeacher(g, day, index) ==
  LET meta == DEFAULT_PERIODS[index + 1]
      slot == SlotAt(g, day, index)
  IN  [startTime  |-> meta.startTime,
       endTime    |-> meta.endTime,
       subject    |-> OrEmpty(Get(slot, "subject")),
       teacher_id |-> Get(slot, "teacher_id")]

\* teacher_id: x || undefined is dropped by JSON.stringify when undefined
PeriodOf(g, day, index) ==
  LET meta == DEFAULT_PERIODS[index + 1]
      slot == SlotAt(g, day, index)
      base == [startTime |-> meta.startTime,
               endTime   |-> meta.endTime,
               subject   |-> OrEmpty(Get(slot, "subject"))]
  IN  IF Falsy(Get(slot, "teacher_id")) THEN base
      ELSE [startTime  |-> base.startTime,
            endTime    |-> base.endTime,
            subject    |-> base.subject,
            teacher_id |-> slot.teacher_id]

\* faulty variant: the map starts at the second period
PeriodsOfFromSecond(g, day) == [k \in 1..(PeriodCount - 1) |-> PeriodOf(g, day, k)]

\* DEFAULT_PERIODS.map((period, index) => ...)
PeriodsOf(g, day) == [k \in 1..PeriodCount |-> PeriodOf(g, day, k - 1)]

\* the body handed to timetablesApi.create, with school_id merged in
WriteOf(g, classId, schoolId, day) ==
  [class |-> classId, day |-> day, periods |-> PeriodsOf(g, day),
   school_id |-> schoolId]

\* faulty variant: every record is built from the first day's slots
SerializeFirstDay(g) == [k \in 1..Len(DAYS) |-> [day |-> DAYS[k], periods |-> PeriodsOf(g, DAYS[1])]]

\* the six records of one save, in DAYS order
Serialize(g) == [k \in 1..Len(DAYS) |-> [day |-> DAYS[k], periods |-> PeriodsOf(g, DAYS[k])]]

(***************************************************************************)
(* The persistence layer, as the page sees it: one record per (class, day) *)
(* kept in arrival order; a write replaces the record of its day.          *)
(***************************************************************************)
StoredRecord(w) == [day |-> w.day, periods |-> w.periods]

UpsertDay(recs, w) ==
  IF \E k \in 1..Len(recs) : Get(recs[k], "day") = w.day
    THEN [k \in 1..Len(recs) |->
            IF Get(recs[k], "day") = w.day THEN StoredRecord(w) ELSE recs[k]]
    ELSE Append(recs, StoredRecord(w))

Upsert(st, w) == [st EXCEPT ![w.class] = UpsertDay(st[w.class], w)]

RemoveAt(xs, k) == SubSeq(xs, 1, k - 1) \o SubSeq(xs, k + 1, Len(xs))

(***************************************************************************)
(* Directories served by the data layer                                    *)
(***************************************************************************)
SchoolIds == {"S1", "S2"}

ClassIds == {"A", "B", "C"}

ClassesOf(school) == IF school = "S1" THEN {"A", "B"} ELSE {"C"}

TeachersOf(school) ==
  IF school = "S1"
    THEN << [id |-> "T1", name |-> "Ann"], [id |-> "T2", name |-> "Bob"] >>
    ELSE << [id |-> "T3", name |-> "Cid"] >>

TeacherIds(dir) == { dir[k].id : k \in 1..Len(dir) }

(***************************************************************************)
(* Bounds of the exploration                                               *)
(***************************************************************************)
\* user events (selections, edits, saves) in one run
MaxEvents == 4

MaxSaves == 2

MaxSchoolChanges == 1

MaxRecords == 2

MaxVaried == 1

MaxRecordLen == 9

\* updateSlot calls in one run of ScenarioSpec
MaxEdits == 3

\* the cells and values the edit events are drawn from
EditDays == {"Monday", "Tuesday"}

EditPeriods == {0}

SubjectChoices == {"", "Math"}

(***************************************************************************)
(* Persisted inputs: well-formed, short, over-long, foreign-day records    *)
(***************************************************************************)
PeriodPalette ==
  { [startTime |-> "09:00", endTime |-> "09:40", subject |-> "Math"],
    [startTime |-> "08:00", endTime |-> "08:45", teacher_id |-> "T1"] }

Filler == [startTime |-> "08:00", endTime |-> "08:45", subject |-> "Art", teacher_id |-> "T2"]

PadTo(ps, n) == ps \o [k \in 1..(n - Len(ps)) |-> Filler]

ShortSeqs == UNION { [1..n -> PeriodPalette] : n \in 0..MaxVaried }

PeriodSeqs == ShortSeqs \cup { PadTo(ps, MaxRecordLen) : ps \in ShortSeqs }

RecordDays == {"Monday", "Sunday"}

RecordInputs ==
  { [day |-> d, periods |-> ps] : d \in RecordDays, ps \in PeriodSeqs }
    \cup { [day |-> "Monday"] }

DataInputs == UNION { [1..n -> RecordInputs] : n \in 0..MaxRecords }

\* what the store holds for class A when the page opens: a short record, an
\* over-long one and one of a foreign day; the other classes have no records
SampleData ==
  << [day |-> "Monday", periods |-> PadTo(<<>>, 2)],
     [day |-> "Tuesday", periods |-> PadTo(<<>>, MaxRecordLen)],
     [day |-> "Sunday", periods |-> PadTo(<<>>, 1)] >>

(***************************************************************************)
(* State                                                                   *)
(***************************************************************************)
VARIABLES
  activeSchool,    \* SchoolContext: id of the active school
  classes,         \* useState: ids of the classes offered by the selector
  teachers,        \* useState: the teacher directory
  selectedClass,   \* useState: "" until a class is chosen
  timetableGrid,   \* useState: {} until a fetch has answered
  conflicts,       \* useState: accumulated conflict messages
  isLoading,       \* useState
  isSaving,        \* useState
  crashed,         \* an exception escaped a state updater or handler
  initFetches,     \* fetchInitialData calls awaiting their response
  fetches,         \* fetchTimetable calls awaiting their response
  saveCtx,         \* what the running handleSave closed over, and its day
  inFlight,        \* timetablesApi.create calls awaiting their response
  store,           \* the persistence layer: class -> records
  toasts,          \* toasts raised by the running or most recent save
  issued,          \* history: writes issued by the running or most recent save
  storeAtSave,     \* history: the store when that save was invoked
  conflictsMeta,   \* history: for each message, the class selected and the
                   \*          slots holding the teacher when it was appended
  lastCall,        \* history: the most recent updateSlot call
  nEvents, nSaves, nSchoolChanges,
  records,         \* EngineSpec: the persisted input
  payload,         \* EngineSpec: the records serialized from the grid
  regrid,          \* EngineSpec: the grid hydrated from payload
  written,         \* ScenarioSpec, history: the value last written by
                   \*          updateSlot to each <<day, index, field>>
  pc               \* EngineSpec: position in the pipeline

pageVars ==
  <<activeSchool, classes, selectedClass, isLoading, isSaving,
    initFetches, fetches, saveCtx, inFlight, store, toasts, issued,
    storeAtSave, conflictsMeta, nEvents, nSaves, nSchoolChanges>>

engineVars == <<records, payload, regrid, written, pc>>

vars ==
  <<activeSchool, classes, teachers, selectedClass, timetableGrid, conflicts,
    isLoading, isSaving, crashed, initFetches, fetches, saveCtx, inFlight,
    store, toasts, issued, storeAtSave, conflictsMeta, lastCall,
    nEvents, nSaves, nSchoolChanges, records, payload, regrid, written, pc>>

NoCall == [op |-> "none"]

NoSave == [idx |-> 0]

\* the component as mounted under an active school: the mount effect has
\* called fetchInitialData, the class effect has nothing to fetch yet
PageInit ==
  /\ activeSchool = "S1"
  /\ classes = {}
  /\ selectedClass = ""
  /\ timetableGrid = EmptyObj
  /\ conflicts = <<>>
  /\ isLoading = FALSE
  /\ isSaving = FALSE
  /\ crashed = FALSE
  /\ initFetches = <<"S1">>
  /\ fetches = <<>>
  /\ saveCtx = NoSave
  /\ inFlight = {}
  /\ toasts = <<>>
  /\ issued = <<>>
  /\ conflictsMeta = <<>>
  /\ lastCall = NoCall
  /\ nEvents = 0 /\ nSaves = 0 /\ nSchoolChanges = 0

EngineIdle ==
  /\ records = <<>>
  /\ payload = <<>>
  /\ regrid = EmptyObj
  /\ written = EmptyObj
  /\ pc = "page"

Init ==
  /\ PageInit
  /\ EngineIdle
  /\ teachers = <<>>
  /\ store = [c \in ClassIds |-> IF c = "A" THEN SampleData ELSE <<>>]
  /\ storeAtSave = store

(***************************************************************************)
(* fetchInitialData                                                        *)
(***************************************************************************)
InitialDataOk ==
  \E k \in 1..Len(initFetches) :
    /\ classes' = ClassesOf(initFetches[k])
    /\ teachers' = TeachersOf(initFetches[k])
    /\ initFetches' = RemoveAt(initFetches, k)
    /\ UNCHANGED <<activeSchool, selectedClass, timetableGrid, conflicts,
                   isLoading, isSaving, crashed, fetches, saveCtx, inFlight,
                   store, toasts, issued, storeAtSave, conflictsMeta, lastCall,
                   nEvents, nSaves, nSchoolChanges>>
    /\ UNCHANGED engineVars

InitialDataFail ==
  \E k \in 1..Len(initFetches) :
    /\ initFetches' = RemoveAt(initFetches, k)
    /\ UNCHANGED <<activeSchool, classes, teachers, selectedClass,
                   timetableGrid, conflicts, isLoading, isSaving, crashed,
                   fetches, saveCtx, inFlight, store, toasts, issued,
                   storeAtSave, conflictsMeta, lastCall,
                   nEvents, nSaves, nSchoolChanges>>
    /\ UNCHANGED engineVars

(***************************************************************************)
(* Selection events and the effects they schedule                          *)
(***************************************************************************)
\* the class selector's onValueChange, then the [selectedClass, ...] effect
SelectClass(c) ==
  /\ ~crashed
  /\ activeSchool # ""
  /\ c \in classes
  /\ c # selectedClass
  /\ nEvents < MaxEvents
  /\ nEvents' = nEvents + 1
  /\ selectedClass' = c
  /\ isLoading' = TRUE
  /\ fetches' = Append(fetches, [cls |-> c, school |-> activeSchool])
  /\ UNCHANGED <<activeSchool, classes, teachers, timetableGrid, conflicts,
                 isSaving, crashed, initFetches, saveCtx, inFlight, store,
                 toasts, issued, storeAtSave, conflictsMeta, lastCall,
                 nSaves, nSchoolChanges>>
  /\ UNCHANGED engineVars

\* the header's school selector, then both effects
SchoolChange(s) ==
  /\ ~crashed
  /\ s # activeSchool
  /\ nEvents < MaxEvents
  /\ nSchoolChanges < MaxSchoolChanges
  /\ nEvents' = nEvents + 1
  /\ nSchoolChanges' = nSchoolChanges + 1
  /\ activeSchool' = s
  /\ initFetches' = Append(initFetches, s)
  /\ IF selectedClass # ""
       THEN /\ isLoading' = TRUE
            /\ fetches' = Append(fetches, [cls |-> selectedClass, school |-> s])
       ELSE UNCHANGED <<isLoading, fetches>>
  /\ UNCHANGED <<classes, teachers, selectedClass, timetableGrid, conflicts,
                 isSaving, crashed, saveCtx, inFlight, store, toasts, issued,
                 storeAtSave, conflictsMeta, lastCall, nSaves>>
  /\ UNCHANGED engineVars

(***************************************************************************)
(* fetchTimetable: the continuation after the awaited read                 *)
(***************************************************************************)
FetchOk ==
  \E k \in 1..Len(fetches) :
    /\ timetableGrid' = Hydrate(store[fetches[k].cls])
    /\ isLoading' = FALSE
    /\ fetches' = RemoveAt(fetches, k)
    /\ UNCHANGED <<activeSchool, classes, teachers, selectedClass, conflicts,
                   isSaving, crashed, initFetches, saveCtx, inFlight, store,
                   toasts, issued, storeAtSave, conflictsMeta, lastCall,
                   nEvents, nSaves, nSchoolChanges>>
    /\ UNCHANGED engineVars

\* faulty variant: the catch block leaves the grid as it is
FetchFailKeepsGrid ==
  \E k \in 1..Len(fetches) :
    /\ isLoading' = FALSE
    /\ fetches' = RemoveAt(fetches, k)
    /\ UNCHANGED <<activeSchool, classes, teachers, selectedClass, timetableGrid,
                   conflicts, isSaving, crashed, initFetches, saveCtx, inFlight,
                   store, toasts, issued, storeAtSave, conflictsMeta, lastCall,
                   nEvents, nSaves, nSchoolChanges>>
    /\ UNCHANGED engineVars

\* the read rejects: catch builds the default grid, finally clears isLoading
FetchFail ==
  \E k \in 1..Len(fetches) :
    /\ timetableGrid' = DefaultGrid
    /\ isLoading' = FALSE
    /\ fetches' = RemoveAt(fetches, k)
    /\ UNCHANGED <<activeSchool, classes, teachers, selectedClass, conflicts,
                   isSaving, crashed, initFetches, saveCtx, inFlight, store,
                   toasts, issued, storeAtSave, conflictsMeta, lastCall,
                   nEvents, nSaves, nSchoolChanges>>
    /\ UNCHANGED engineVars

(***************************************************************************)
(* updateSlot, with the checkConflicts call it makes                       *)
(***************************************************************************)
ApplyUpdateSlot(day, periodIndex, field, value) ==
  LET throws  == UpdaterThrows(timetableGrid, day)
      updated == IF throws THEN timetableGrid
                 ELSE SetSlot(timetableGrid, day, periodIndex, field, value)
      checked == field = "teacher_id" /\ ~Falsy(value)
      scanned == ScannedGrid(timetableGrid, updated)
      msgs    == IF checked
                   THEN ConflictMessages(scanned, day, periodIndex, value, teachers)
                   ELSE <<>>
      raised  == checked /\ ConflictThrows(scanned, day, periodIndex, value, teachers)
      after   == AddConflicts(conflicts, msgs)
      holders == Cardinality(MatchingSlots(updated, day, periodIndex, value))
  IN  /\ timetableGrid' = updated
      /\ conflicts' = after
      /\ conflictsMeta' =
           conflictsMeta \o [k \in 1..(Len(after) - Len(conflicts)) |->
                               [cls |-> selectedClass, holders |-> holders]]
      /\ crashed' = (crashed \/ throws)
      /\ lastCall' = [op |-> "updateSlot", day |-> day, periodIndex |-> periodIndex,
                      field |-> field, value |-> value, before |-> timetableGrid,
                      checked |-> checked, resolves |-> FindTeacher(teachers, value) # Undef,
                      scannedTeacher |-> Get(SlotAt(scanned, day, periodIndex), "teacher_id"),
                      emitted |-> msgs, threw |-> (throws \/ raised)]

\* the cell editors are rendered for a selected class once isLoading is false
GridShown == ~crashed /\ activeSchool # "" /\ selectedClass # "" /\ ~isLoading

UpdateSlot(day, periodIndex, field, value) ==
  /\ GridShown
  /\ nEvents < MaxEvents
  /\ nEvents' = nEvents + 1
  /\ ApplyUpdateSlot(day, periodIndex, field, value)
  /\ UNCHANGED <<activeSchool, classes, teachers, selectedClass, isLoading,
                 isSaving, initFetches, fetches, saveCtx, inFlight, store,
                 toasts, issued, storeAtSave, nSaves, nSchoolChanges>>
  /\ UNCHANGED engineVars

EditSubject ==
  \E day \in EditDays, periodIndex \in EditPeriods, value \in SubjectChoices :
    UpdateSlot(day, periodIndex, "subject", value)

EditTeacher ==
  \E day \in EditDays, periodIndex \in EditPeriods,
     value \in {""} \cup TeacherIds(teachers) :
    UpdateSlot(day, periodIndex, "teacher_id", value)

(***************************************************************************)
(* handleSave                                                              *)
(***************************************************************************)
\* faulty variant: the grid is read when the write is issued
WriteForCurrentGrid(ctx) == WriteOf(timetableGrid, ctx.cls, ctx.school, DAYS[ctx.idx])

\* faulty variant: the class is read when the write is issued
WriteForSelected(ctx) == WriteOf(ctx.grid, selectedClass, ctx.school, DAYS[ctx.idx])

\* the create call of one iteration: grid, class and school are those of
\* the render in which handleSave was invoked
WriteFor(ctx) == WriteOf(ctx.grid, ctx.cls, ctx.school, DAYS[ctx.idx])

\* faulty variant: the loop steps over every other day
NextIdxSkips(i) == i + 2

\* for (const day of DAYS): the position of the next day
NextIdx(i) == i + 1

\* faulty variant: the rejection is caught inside the loop, which goes on
WritesAfterFailureGoesOn(ctx) ==
  IF ctx.idx < Len(DAYS) THEN <<WriteFor([ctx EXCEPT !.idx = ctx.idx + 1])>>
  ELSE <<>>

\* the catch and finally blocks issue nothing
WritesAfterFailure(ctx) == <<>>

\* faulty variant: the messages survive the save
ConflictsKeptAfterSave(prev) == prev

\* setConflicts([]) after the last write
ConflictsAfterSave(prev) == <<>>

\* faulty variant: the save is refused while a conflict message is shown
HandleSaveUnlessConflicts ==
  /\ conflicts = <<>>
  /\ ~crashed
  /\ activeSchool # ""
  /\ selectedClass # ""
  /\ ~isSaving
  /\ nEvents < MaxEvents
  /\ nSaves < MaxSaves
  /\ nEvents' = nEvents + 1
  /\ nSaves' = nSaves + 1
  /\ isSaving' = TRUE
  /\ LET ctx == [grid |-> timetableGrid, cls |-> selectedClass,
                 school |-> activeSchool, idx |-> 1]
     IN  /\ saveCtx' = ctx
         /\ inFlight' = {WriteFor(ctx)}
         /\ issued' = <<WriteFor(ctx)>>
  /\ toasts' = <<>>
  /\ storeAtSave' = store
  /\ UNCHANGED <<activeSchool, classes, teachers, selectedClass, timetableGrid,
                 conflicts, isLoading, crashed, initFetches, fetches, store,
                 conflictsMeta, lastCall, nSchoolChanges>>
  /\ UNCHANGED engineVars

\* the Save button: rendered for a selected class, disabled while isSaving
HandleSave ==
  /\ ~crashed
  /\ activeSchool # ""
  /\ selectedClass # ""
  /\ ~isSaving
  /\ nEvents < MaxEvents
  /\ nSaves < MaxSaves
  /\ nEvents' = nEvents + 1
  /\ nSaves' = nSaves + 1
  /\ isSaving' = TRUE
  /\ LET ctx == [grid |-> timetableGrid, cls |-> selectedClass,
                 school |-> activeSchool, idx |-> 1]
     IN  /\ saveCtx' = ctx
         /\ inFlight' = {WriteFor(ctx)}
         /\ issued' = <<WriteFor(ctx)>>
  /\ toasts' = <<>>
  /\ storeAtSave' = store
  /\ UNCHANGED <<activeSchool, classes, teachers, selectedClass, timetableGrid,
                 conflicts, isLoading, crashed, initFetches, fetches, store,
                 conflictsMeta, lastCall, nSchoolChanges>>
  /\ UNCHANGED engineVars

\* a create call resolves: the loop goes on to the next day, or finishes
WriteOk ==
  \E w \in inFlight :
    /\ store' = Upsert(store, w)
    /\ IF NextIdx(saveCtx.idx) <= Len(DAYS)
         THEN LET ctx == [saveCtx EXCEPT !.idx = NextIdx(saveCtx.idx)]
              IN  /\ saveCtx' = ctx
                  /\ inFlight' = (inFlight \ {w}) \cup {WriteFor(ctx)}
                  /\ issued' = Append(issued, WriteFor(ctx))
                  /\ UNCHANGED <<toasts, conflicts, conflictsMeta, isSaving>>
         ELSE /\ saveCtx' = NoSave
              /\ inFlight' = inFlight \ {w}
              /\ toasts' = Append(toasts, "Success")
              /\ conflicts' = ConflictsAfterSave(conflicts)
              /\ conflictsMeta' = <<>>
              /\ isSaving' = FALSE
              /\ UNCHANGED issued
    /\ UNCHANGED <<activeSchool, classes, teachers, selectedClass, timetableGrid,
                   isLoading, crashed, initFetches, fetches, storeAtSave,
                   lastCall, nEvents, nSaves, nSchoolChanges>>
    /\ UNCHANGED engineVars

\* faulty variant: setIsSaving(false) is the last statement of the try block
WriteFailStaysSaving ==
  \E w \in inFlight :
    /\ LET more == WritesAfterFailure(saveCtx)
       IN  /\ inFlight' = (inFlight \ {w}) \cup { more[k] : k \in 1..Len(more) }
           /\ issued' = issued \o more
    /\ saveCtx' = NoSave
    /\ toasts' = Append(toasts, "Error")
    /\ UNCHANGED <<activeSchool, classes, teachers, selectedClass, timetableGrid,
                   conflicts, isLoading, isSaving, crashed, initFetches, fetches,
                   store, storeAtSave, conflictsMeta, lastCall,
                   nEvents, nSaves, nSchoolChanges>>
    /\ UNCHANGED engineVars

\* a create call rejects: catch raises the toast, finally clears isSaving
WriteFail ==
  \E w \in inFlight :
    /\ LET more == WritesAfterFailure(saveCtx)
       IN  /\ inFlight' = (inFlight \ {w}) \cup { more[k] : k \in 1..Len(more) }
           /\ issued' = issued \o more
    /\ saveCtx' = NoSave
    /\ toasts' = Append(toasts, "Error")
    /\ isSaving' = FALSE
    /\ UNCHANGED <<activeSchool, classes, teachers, selectedClass, timetableGrid,
                   conflicts, isLoading, crashed, initFetches, fetches, store,
                   storeAtSave, conflictsMeta, lastCall,
                   nEvents, nSaves, nSchoolChanges>>
    /\ UNCHANGED engineVars

Next ==
  \/ InitialDataOk
  \/ InitialDataFail
  \/ \E c \in ClassIds : SelectClass(c)
  \/ FetchOk
  \/ FetchFail
  \/ EditSubject
  \/ EditTeacher
  \/ HandleSave
  \/ WriteOk
  \/ WriteFail

Spec == Init /\ [][Next]_vars

\* the events that start, carry and overlap a save: class selections, reads
\* and the save itself
LiveNext ==
  \/ InitialDataOk
  \/ \E c \in ClassIds : SelectClass(c)
  \/ FetchOk
  \/ FetchFail
  \/ HandleSave
  \/ WriteOk
  \/ WriteFail

\* the page under the assumption that every create call is answered
LiveSpec == Init /\ [][LiveNext]_vars /\ WF_vars(WriteOk \/ WriteFail)

\* the page with the header's school selector in play
NextSchool == Next \/ \E s \in SchoolIds : SchoolChange(s)

SchoolSpec == Init /\ [][NextSchool]_vars

(***************************************************************************)
(* EngineSpec: hydrate, updateSlot and the save records as functions of    *)
(* inputs the page's own controls would never produce                      *)
(***************************************************************************)
CallDays == {"Monday", "Sunday"}

CallPeriods == {0, PeriodCount}

CallTeachers == {"", "T1", "T9"}

EngineInit ==
  /\ PageInit
  /\ teachers \in { TeachersOf(sch) : sch \in SchoolIds }
  /\ store = [c \in ClassIds |-> <<>>]
  /\ storeAtSave = store
  /\ records \in DataInputs
  /\ payload = <<>>
  /\ regrid = EmptyObj
  /\ written = EmptyObj
  /\ pc = "start"

EHydrate ==
  /\ pc = "start"
  /\ timetableGrid' = Hydrate(records)
  /\ pc' = "hydrated"
  /\ UNCHANGED <<teachers, conflicts, crashed, lastCall, records, payload, regrid, written>>
  /\ UNCHANGED pageVars

ESerialize ==
  /\ pc = "hydrated"
  /\ payload' = Serialize(timetableGrid)
  /\ pc' = "serialized"
  /\ UNCHANGED <<teachers, timetableGrid, conflicts, crashed, lastCall, records, regrid, written>>
  /\ UNCHANGED pageVars

ERehydrate ==
  /\ pc = "serialized"
  /\ regrid' = Hydrate(payload)
  /\ pc' = "rehydrated"
  /\ UNCHANGED <<teachers, timetableGrid, conflicts, crashed, lastCall, records, payload, written>>
  /\ UNCHANGED pageVars

EUpdateSlot ==
  /\ pc = "hydrated"
  /\ \E day \in CallDays, periodIndex \in CallPeriods :
       \/ ApplyUpdateSlot(day, periodIndex, "subject", "Math")
       \/ \E value \in CallTeachers :
            ApplyUpdateSlot(day, periodIndex, "teacher_id", value)
  /\ pc' = "edited"
  /\ UNCHANGED <<teachers, records, payload, regrid, written>>
  /\ UNCHANGED <<activeSchool, classes, selectedClass, isLoading, isSaving,
                 initFetches, fetches, saveCtx, inFlight, store, toasts, issued,
                 storeAtSave, nEvents, nSaves, nSchoolChanges>>

EngineNext == EHydrate \/ ESerialize \/ ERehydrate \/ EUpdateSlot

EngineSpec == EngineInit /\ [][EngineNext]_vars

(***************************************************************************)
(* ScenarioSpec: a class without records is hydrated, its grid is edited   *)
(* cell by cell, and the records of a save are built from it               *)
(***************************************************************************)
ScenarioDays == {"Tuesday", "Wednesday"}

ScenarioPeriods == {0, 3}

ScenarioSubjects == {"", "English"}

ScenarioDirectory == << [id |-> "T7", name |-> "Eve"] >>

ScenarioInit ==
  /\ PageInit
  /\ teachers = ScenarioDirectory
  /\ store = [c \in ClassIds |-> <<>>]
  /\ storeAtSave = store
  /\ records = <<>>
  /\ payload = <<>>
  /\ regrid = EmptyObj
  /\ written = EmptyObj
  /\ pc = "start"

\* written, with the value of one more updateSlot call
NoteWrite(w, day, periodIndex, field, value) ==
  [k \in (DOMAIN w) \cup {<<day, periodIndex, field>>} |->
     IF k = <<day, periodIndex, field>> THEN value ELSE w[k]]

\* one change in a cell editor of the grid
SEdit ==
  /\ pc = "hydrated"
  /\ nEvents < MaxEdits
  /\ nEvents' = nEvents + 1
  /\ \E day \in ScenarioDays, periodIndex \in ScenarioPeriods :
       \/ \E value \in ScenarioSubjects :
            /\ ApplyUpdateSlot(day, periodIndex, "subject", value)
            /\ written' = NoteWrite(written, day, periodIndex, "subject", value)
       \/ \E value \in {""} \cup TeacherIds(teachers) :
            /\ ApplyUpdateSlot(day, periodIndex, "teacher_id", value)
            /\ written' = NoteWrite(written, day, periodIndex, "teacher_id", value)
  /\ UNCHANGED <<teachers, records, payload, regrid, pc>>
  /\ UNCHANGED <<activeSchool, classes, selectedClass, isLoading, isSaving,
                 initFetches, fetches, saveCtx, inFlight, store, toasts, issued,
                 storeAtSave, nSaves, nSchoolChanges>>

ScenarioNext == EHydrate \/ SEdit \/ ESerialize

ScenarioSpec == ScenarioInit /\ [][ScenarioNext]_vars

(***************************************************************************)
(* Properties of the grid transforms (EngineSpec)                          *)
(***************************************************************************)
HasPeriods(rec) == "periods" \in DOMAIN rec

\* C1: for every hydration input the hydrated grid has exactly the
\* |DAYS| x periodCount slots Monday..Saturday x 0..7, none outside and
\* none missing.
C1_HydrateExactSlots ==
  pc = "hydrated" => SlotKeys(timetableGrid) = FullSlots

\* C5: updateSlot with a day outside Monday..Saturday or a periodIndex
\* outside 0..7 leaves the grid as it was and raises no error.
C5_InvalidEditIsNoOp ==
  (pc = "edited" /\ (lastCall.day \notin DaySet \/ lastCall.periodIndex \notin PeriodIdx))
    => (timetableGrid = lastCall.before /\ ~lastCall.threw)

\* the records of data that have a position i for day d
Covering(data, d, i) ==
  { k \in 1..Len(data) :
      /\ HasPeriods(data[k])
      /\ Get(data[k], "day") = d
      /\ i < Len(data[k].periods) }

\* field f of (d, i) as the last covering record gives it, "" if none does
Persisted(data, d, i, f) ==
  LET ks == Covering(data, d, i)
  IN  IF ks = {} THEN ""
      ELSE LET k == CHOOSE x \in ks : \A y \in ks : y <= x
           IN  OrEmpty(Get(data[k].periods[i + 1], f))

SamePeriod(a, b) ==
  /\ Get(a, "startTime") = Get(b, "startTime")
  /\ Get(a, "endTime") = Get(b, "endTime")
  /\ OrEmpty(Get(a, "subject")) = OrEmpty(Get(b, "subject"))
  /\ OrEmpty(Get(a, "teacher_id")) = OrEmpty(Get(b, "teacher_id"))

DefaultPeriod(i) ==
  [startTime |-> DEFAULT_PERIODS[i + 1].startTime,
   endTime   |-> DEFAULT_PERIODS[i + 1].endTime,
   subject   |-> ""]

\* out holds every period of every record of data, and defaults elsewhere
Reproduces(data, out) ==
  /\ \A k \in 1..Len(data) :
       HasPeriods(data[k]) =>
         \A i \in 1..Len(data[k].periods) :
           \E j \in 1..Len(out) :
             /\ out[j].day = data[k].day
             /\ i <= Len(out[j].periods)
             /\ SamePeriod(out[j].periods[i], data[k].periods[i])
  /\ \A j \in 1..Len(out) : \A i \in 1..Len(out[j].periods) :
       Covering(data, out[j].day, i - 1) = {} =>
         SamePeriod(out[j].periods[i], DefaultPeriod(i - 1))

\* C10 as stated: the serialized grid reproduces the persisted records up to
\* default-filling of absent days and periods, and hydrating it again gives
\* the same grid.
C10_RoundTripAsStated ==
  /\ pc \in {"serialized", "rehydrated"} => Reproduces(records, payload)
  /\ pc = "rehydrated" => regrid = timetableGrid

\* C10 (amended): the serialized grid holds one record per day of DAYS, in
\* DAYS order, with periodCount periods; period i of day d carries the
\* configured times of period i and the subject / teacher_id of the last
\* persisted record of d that has a position i (teacher_id absent when
\* empty), the defaults where no record has one; hydrating it again gives a
\* grid of exactly Monday..Saturday x 0..7 that agrees with the first grid
\* on each of these slots.
C10_RoundTrip ==
  /\ pc \in {"serialized", "rehydrated"} =>
       /\ Len(payload) = Len(DAYS)
       /\ \A k \in 1..Len(DAYS) :
            /\ payload[k].day = DAYS[k]
            /\ Len(payload[k].periods) = PeriodCount
            /\ \A i \in PeriodIdx :
                 LET p == payload[k].periods[i + 1]
                     t == Persisted(records, DAYS[k], i, "teacher_id")
                 IN  /\ p.startTime = DEFAULT_PERIODS[i + 1].startTime
                     /\ p.endTime = DEFAULT_PERIODS[i + 1].endTime
                     /\ p.subject = Persisted(records, DAYS[k], i, "subject")
                     /\ ("teacher_id" \in DOMAIN p) = (t # "")
                     /\ "teacher_id" \in DOMAIN p => p.teacher_id = t
  /\ pc = "rehydrated" =>
       /\ SlotKeys(regrid) = FullSlots
       /\ \A k \in FullSlots : regrid[k[1]][k[2]] = timetableGrid[k[1]][k[2]]

\* two records of one day, the first over-long, the second short, went
\* through hydrate, serialize and hydrate
C10_Witness ==
  /\ pc = "rehydrated"
  /\ Len(records) = 2
  /\ HasPeriods(records[1]) /\ HasPeriods(records[2])
  /\ records[1].day = "Monday" /\ records[2].day = "Monday"
  /\ Len(records[1].periods) > PeriodCount
  /\ Len(records[2].periods) = 1
  /\ timetableGrid["Monday"][0] # timetableGrid["Monday"][1]

\* the slot a period of a persisted record is turned into
SlotOf(period) ==
  [subject    |-> OrEmpty(Get(period, "subject")),
   teacher_id |-> OrEmpty(Get(period, "teacher_id"))]

OtherField(f) == IF f = "subject" THEN "teacher_id" ELSE "subject"

\* C12: an updateSlot call with a day of Monday..Saturday and a periodIndex
\* of 0..7 raises no error and changes only the named field of that slot:
\* the field holds the value, the slot's other field is what it was, and
\* every other slot of the grid is what it was.
C12_FieldIsolation ==
  (pc = "edited" /\ lastCall.day \in DaySet /\ lastCall.periodIndex \in PeriodIdx) =>
    LET b == lastCall.before
        d == lastCall.day
        i == lastCall.periodIndex
    IN  /\ ~lastCall.threw
        /\ SlotKeys(timetableGrid) = SlotKeys(b)
        /\ \A k \in SlotKeys(b) :
             k # <<d, i>> => timetableGrid[k[1]][k[2]] = b[k[1]][k[2]]
        /\ DOMAIN timetableGrid[d][i] = {"subject", "teacher_id"}
        /\ timetableGrid[d][i][lastCall.field] = lastCall.value
        /\ timetableGrid[d][i][OtherField(lastCall.field)] =
             b[d][i][OtherField(lastCall.field)]

\* the subject of a slot that holds a teacher was replaced, on a day that
\* has a ninth slot
C12_Witness ==
  /\ pc = "edited"
  /\ lastCall.day = "Monday" /\ lastCall.periodIndex = 0
  /\ lastCall.field = "subject"
  /\ lastCall.before["Monday"][0] = [subject |-> "Art", teacher_id |-> "T2"]
  /\ timetableGrid["Monday"][0] = [subject |-> "Math", teacher_id |-> "T2"]
  /\ <<"Monday", PeriodCount>> \in SlotKeys(timetableGrid)

KnownDay(rec) == Get(rec, "day") \in DaySet

\* rec without the positions at or beyond the configured period count
Truncated(rec) ==
  IF HasPeriods(rec) /\ Len(rec.periods) > PeriodCount
    THEN [rec EXCEPT !.periods = SubSeq(rec.periods, 1, PeriodCount)]
    ELSE rec

\* data without the records of foreign days and without the positions at or
\* beyond the configured period count
Trimmed(data) ==
  LET known == SelectSeq(data, KnownDay)
  IN  [k \in 1..Len(known) |-> Truncated(known[k])]

\* C19: records of a day outside Monday..Saturday and positions of a
\* periods sequence at or beyond periodCount have no effect: the hydrated
\* grid is the grid hydrated from the input without them, and no error is
\* raised.
C19_DriftIgnored ==
  pc = "hydrated" =>
    /\ timetableGrid = Hydrate(Trimmed(records))
    /\ ~crashed

\* C22: an updateSlot call on a day of the grid that assigns a teacher_id
\* which is not in the teacher directory emits no message and raises no
\* error, and leaves the conflict set as it was, also when the scanned
\* slot already holds that teacher_id.
C22_UnknownTeacherSkipped ==
  (/\ pc = "edited"
   /\ lastCall.day \in DaySet
   /\ lastCall.field = "teacher_id"
   /\ lastCall.value # ""
   /\ \A n \in 1..Len(teachers) : teachers[n].id # lastCall.value)
    => /\ lastCall.emitted = <<>>
       /\ ~lastCall.threw
       /\ ~crashed
       /\ conflicts = <<>>

\* T1, held by (Monday, 0) from a persisted record but missing from the
\* directory, was assigned to (Monday, 0)
C22_Witness ==
  /\ pc = "edited"
  /\ teachers = TeachersOf("S2")
  /\ lastCall.day = "Monday" /\ lastCall.periodIndex = 0
  /\ lastCall.field = "teacher_id" /\ lastCall.value = "T1"
  /\ lastCall.scannedTeacher = "T1"
  /\ lastCall.before["Monday"][0].teacher_id = "T1"
  /\ conflicts = <<>>

(***************************************************************************)
(* Properties of the page (Spec)                                           *)
(***************************************************************************)
\* C2: when updateSlot sets teacher_id to a non-empty value, the conflict
\* check scans the grid as it is after the mutation: the edited slot already
\* holds the new teacher, so a message is emitted whenever the teacher
\* resolves, whatever the slot held before.
C2_CheckSeesAssignedTeacher ==
  (lastCall.op = "updateSlot" /\ lastCall.checked /\ ~lastCall.threw) =>
     /\ lastCall.scannedTeacher = lastCall.value
     /\ lastCall.resolves => lastCall.emitted # <<>>

\* C3: every accumulated message reports a double-booking: when it was
\* appended, its teacher was held by more than one slot of that day and
\* period index.
C3_MessagesReportDoubleBooking ==
  \A k \in 1..Len(conflictsMeta) : conflictsMeta[k].holders > 1

\* C4: once the newly selected class has been hydrated, no accumulated
\* message dates from the time another class was selected.
C4_SwitchClearsConflicts ==
  (selectedClass # "" /\ ~isLoading /\ fetches = <<>>) =>
     \A k \in 1..Len(conflictsMeta) : conflictsMeta[k].cls = selectedClass

Dense(g) ==
  /\ FullSlots \subseteq SlotKeys(g)
  /\ \A k \in FullSlots : DOMAIN g[k[1]][k[2]] = {"subject", "teacher_id"}

\* C6 as stated: the grid is dense in every reachable state, also before a
\* class is selected and while a fetch is in flight.
C6_GridDenseAlways == Dense(timetableGrid)

\* C6 (amended): the grid is the empty object only while no class is
\* selected or the first fetch is still in flight; in every other state
\* (after a successful or failed read, after any edits and saves) every
\* (day, periodIndex) of Monday..Saturday x 0..7 is present with a subject
\* and a teacher_id.
C6_GridDense ==
  IF timetableGrid = EmptyObj
    THEN selectedClass = "" \/ isLoading
    ELSE Dense(timetableGrid)

\* an edited grid, hydrated from an over-long record, after a save
C6_Witness ==
  /\ lastCall.op = "updateSlot"
  /\ toasts # <<>>
  /\ SlotKeys(timetableGrid) # FullSlots
  /\ Dense(timetableGrid)

WroteTo(st, w) ==
  \E k \in 1..Len(st[w.class]) : st[w.class][k] = StoredRecord(w)

\* C7: the writes of a save are issued in DAYS order, each only after the
\* write of the preceding day has succeeded, never two in flight, and a
\* save whose writes all succeed issues exactly one write per day.
C7_SequentialWrites ==
  /\ Cardinality(inFlight) <= 1
  /\ Len(issued) <= Len(DAYS)
  /\ \A k \in 1..Len(issued) : issued[k].day = DAYS[k]
  /\ inFlight # {} => inFlight = {issued[Len(issued)]}
  /\ \A k \in 1..(Len(issued) - 1) : WroteTo(store, issued[k])
  /\ "Success" \in {toasts[k] : k \in 1..Len(toasts)} => Len(issued) = Len(DAYS)

\* the fourth write of a save is in flight
C7_Witness ==
  /\ isSaving
  /\ Len(issued) = 4
  /\ inFlight = {issued[4]}

RecordsOfDay(recs, d) == { k \in 1..Len(recs) : Get(recs[k], "day") = d }

\* C8: when the write of some day fails, no later write is issued, exactly
\* one error notification is raised for the save, and the days written
\* before stay persisted while the other days keep their old records.
C8_FailureStopsSave ==
  "Error" \in {toasts[k] : k \in 1..Len(toasts)} =>
     /\ toasts = <<"Error">>
     /\ inFlight = {}
     /\ saveCtx = NoSave
     /\ ~isSaving
     /\ Len(issued) >= 1
     /\ \A k \in 1..(Len(issued) - 1) : WroteTo(store, issued[k])
     /\ \A k \in Len(issued)..Len(DAYS) :
          LET c == issued[1].class
          IN  \A j \in 1..Len(store[c]) :
                Get(store[c][j], "day") = DAYS[k] =>
                  /\ j <= Len(storeAtSave[c])
                  /\ store[c][j] = storeAtSave[c][j]

\* the save failed on Wednesday: Monday and Tuesday are new, the rest is old
C8_Witness ==
  /\ toasts = <<"Error">>
  /\ Len(issued) = 3
  /\ WroteTo(store, issued[1]) /\ WroteTo(store, issued[2])
  /\ ~WroteTo(store, issued[3])
  /\ store # storeAtSave

WriteFields == {"class", "day", "periods", "school_id"}

PeriodFields == {"startTime", "endTime", "subject", "teacher_id"}

\* C9: the step that completes a save whose writes all succeeded leaves the
\* conflict set empty, and no record sent to the persistence layer has a
\* field other than class, day, school_id and the periods' times, subject
\* and teacher_id.
C9_SaveClearsConflicts ==
  /\ [][(isSaving /\ ~isSaving' /\ toasts' = <<"Success">>) => conflicts' = <<>>]_vars
  /\ [](\A k \in 1..Len(issued) :
          /\ DOMAIN issued[k] = WriteFields
          /\ \A i \in 1..Len(issued[k].periods) :
               DOMAIN issued[k].periods[i] \subseteq PeriodFields)

\* a save succeeded after an edit had raised a message
C9_Witness ==
  /\ toasts = <<"Success">>
  /\ lastCall.op = "updateSlot"
  /\ lastCall.emitted # <<>>
  /\ conflicts = <<>>

\* a step that is one updateSlot call of the page; lastCall' describes it
EditStep ==
  /\ nEvents' = nEvents + 1
  /\ selectedClass' = selectedClass
  /\ activeSchool' = activeSchool
  /\ isSaving' = isSaving

InConflicts(cs, m) == \E k \in 1..Len(cs) : cs[k] = m

C14_DayScoped ==
  [][(EditStep /\ lastCall'.field = "teacher_id" /\ lastCall'.value # "")
     => /\ Get(SlotAt(timetableGrid, lastCall'.day, lastCall'.periodIndex), "teacher_id")
             # lastCall'.value
           => conflicts' = conflicts
        /\ \A k \in 1..Len(conflicts') :
             InConflicts(conflicts, conflicts'[k]) \/ conflicts'[k][5] = lastCall'.day]_vars

\* T1 was assigned to (Monday, 0) and then to (Tuesday, 0), which did not
\* hold it: no message
C14_Witness ==
  /\ lastCall.op = "updateSlot"
  /\ lastCall.day = "Tuesday" /\ lastCall.periodIndex = 0
  /\ lastCall.field = "teacher_id" /\ lastCall.value = "T1"
  /\ lastCall.before["Monday"][0].teacher_id = "T1"
  /\ lastCall.before["Tuesday"][0].teacher_id # "T1"
  /\ timetableGrid["Monday"][0].teacher_id = "T1"
  /\ timetableGrid["Tuesday"][0].teacher_id = "T1"
  /\ conflicts = <<>>

NoRepeats(cs) ==
  \A j, k \in 1..Len(cs) : cs[j] = cs[k] => j = k

IsPrefix(xs, ys) ==
  /\ Len(xs) <= Len(ys)
  /\ \A k \in 1..Len(xs) : ys[k] = xs[k]

\* C15: in every reachable state no message occurs twice in the conflict
\* set, and an updateSlot call never reorders it: the set after the call
\* starts with the set before the call, a new message comes after it.
C15_NoRepeatsOrderKept ==
  /\ [](NoRepeats(conflicts))
  /\ [][EditStep => IsPrefix(conflicts, conflicts')]_vars

\* two messages are in the set and the last call emitted the first of them
\* again
C15_Witness ==
  /\ Len(conflicts) = 2
  /\ lastCall.op = "updateSlot"
  /\ lastCall.emitted # <<>>
  /\ lastCall.emitted[1] = conflicts[1]
  /\ conflicts[1] # conflicts[2]

\* C16: every record a save builds is the record of one day of DAYS, in
\* DAYS order, with exactly periodCount periods; period i carries the
\* configured startTime / endTime of period i, the subject of slot (day, i)
\* of the grid the save was invoked on ("" when unset) and the slot's
\* teacher_id, which is absent exactly when the slot's teacher_id is empty.
C16_RecordShape ==
  saveCtx.idx >= 1 =>
    \A k \in 1..Len(issued) :
      /\ issued[k].day = DAYS[k]
      /\ Len(issued[k].periods) = PeriodCount
      /\ \A i \in PeriodIdx :
           LET p       == issued[k].periods[i + 1]
               slot    == SlotAt(saveCtx.grid, DAYS[k], i)
               subject == Get(slot, "subject")
               teacher == Get(slot, "teacher_id")
           IN  /\ DOMAIN p \subseteq PeriodFields
               /\ p.startTime = DEFAULT_PERIODS[i + 1].startTime
               /\ p.endTime = DEFAULT_PERIODS[i + 1].endTime
               /\ p.subject = (IF subject \in {"", Undef} THEN "" ELSE subject)
               /\ ("teacher_id" \in DOMAIN p) = (teacher \notin {"", Undef})
               /\ "teacher_id" \in DOMAIN p => p.teacher_id = teacher

\* the six records of a save are built; Monday's grid has a slot with a
\* subject and a teacher, a slot with a subject only and an empty slot
C16_Witness ==
  /\ isSaving
  /\ Len(issued) = Len(DAYS)
  /\ SlotAt(saveCtx.grid, "Monday", 0) = [subject |-> "Math", teacher_id |-> ""]
  /\ SlotAt(saveCtx.grid, "Monday", 1) = [subject |-> "Art", teacher_id |-> "T2"]
  /\ SlotAt(saveCtx.grid, "Monday", 2) = [subject |-> "", teacher_id |-> ""]
  /\ issued[1].periods[1] = [startTime |-> "08:00", endTime |-> "08:45", subject |-> "Math"]
  /\ issued[1].periods[2] =
       [startTime |-> "08:45", endTime |-> "09:30", subject |-> "Art", teacher_id |-> "T2"]
  /\ issued[1].periods[3] = [startTime |-> "09:45", endTime |-> "10:30", subject |-> ""]

\* C17: the step in which a read of the persistence layer fails leaves the
\* grid with exactly the slots Monday..Saturday x 0..7, each of them
\* {subject: "", teacher_id: ""}, raises no error, ends the loading state
\* and leaves the conflict set as it was.
C17_FailedReadDefaults ==
  [][FetchFail =>
       /\ SlotKeys(timetableGrid') = FullSlots
       /\ \A s \in FullSlots :
            timetableGrid'[s[1]][s[2]] = [subject |-> "", teacher_id |-> ""]
       /\ conflicts' = conflicts
       /\ crashed' = crashed
       /\ ~isLoading']_vars

\* class A, whose records hydrate to a grid that is not the default one, is
\* selected and every read has been answered; the last edit assigned T1 on
\* a 6 x 8 grid and raised a message; the grid is all-default now and the
\* message is still there
C17_Witness ==
  /\ selectedClass = "A"
  /\ fetches = <<>>
  /\ ~isLoading
  /\ store["A"] = SampleData
  /\ Hydrate(SampleData) # DefaultGrid
  /\ timetableGrid = DefaultGrid
  /\ lastCall.op = "updateSlot"
  /\ lastCall.value = "T1"
  /\ SlotKeys(lastCall.before) = FullSlots
  /\ lastCall.emitted # <<>>
  /\ conflicts = lastCall.emitted

\* C20: a class switch does not cancel a save that is in flight.  The step
\* that switches the class while a save runs leaves the save running with
\* its write in flight; the step that invokes a save issues a write for the
\* class selected then; every later write of the save carries that same
\* class, whatever class is selected when it is issued; and when a write
\* of a day before Saturday succeeds the write of the next day is issued.
C20_SwitchKeepsSave ==
  /\ [][(isSaving /\ selectedClass' # selectedClass) =>
          (isSaving' /\ inFlight' = inFlight /\ issued' = issued /\ saveCtx' = saveCtx)]_vars
  /\ [][(~isSaving /\ isSaving') =>
          (Len(issued') = 1 /\ issued'[1].class = selectedClass /\ inFlight' = {issued'[1]})]_vars
  /\ [](\A k \in 1..Len(issued) : issued[k].class = issued[1].class)
  /\ [][(isSaving /\ store' # store /\ Len(issued) < Len(DAYS)) =>
          (isSaving' /\ Len(issued') = Len(issued) + 1
             /\ inFlight' = {issued'[Len(issued')]})]_vars

\* the class was switched while the save was running, the read of the new
\* class has been answered, and the save has gone on to its sixth write,
\* which carries the class of the first
C20_Witness ==
  /\ isSaving
  /\ selectedClass = "B"
  /\ fetches = <<>>
  /\ Len(issued) = Len(DAYS)
  /\ issued[1].class = "A"
  /\ issued[Len(DAYS)].class = "A"
  /\ inFlight = {issued[Len(DAYS)]}

\* C21: an updateSlot call changes the conflict set only when the edited
\* field is teacher_id and the new value is non-empty: a subject edit, and
\* an edit that clears teacher_id, leave the conflict set as it was.
C21_OnlyTeacherEditsCheck ==
  [][(EditStep /\ (lastCall'.field = "subject" \/ lastCall'.value = ""))
       => conflicts' = conflicts]_vars

\* the teacher that had raised a message was cleared from its slot by the
\* last call, the message is still there
C21_Witness ==
  /\ lastCall.op = "updateSlot"
  /\ lastCall.field = "teacher_id" /\ lastCall.value = ""
  /\ lastCall.before[lastCall.day][lastCall.periodIndex].teacher_id = "T2"
  /\ conflicts = << <<"Bob", " is already assigned at ", "08:00", " on ", lastCall.day>> >>
  /\ timetableGrid[lastCall.day][lastCall.periodIndex].teacher_id = ""

\* the Save button is on the page and enabled, and the run has a save left
SaveOffered ==
  /\ ~crashed
  /\ activeSchool # ""
  /\ selectedClass # ""
  /\ ~isSaving
  /\ nEvents < MaxEvents
  /\ nSaves < MaxSaves

\* C23: conflicts are advisory.  The updateSlot call that emits a conflict
\* message still writes its value into the slot; and whenever the Save
\* button is offered a save can be invoked, whatever the conflict set
\* holds, and the invocation issues the write of the first day.
C23_ConflictsAdvisory ==
  /\ [][(EditStep /\ lastCall'.emitted # <<>>) =>
          Get(SlotAt(timetableGrid', lastCall'.day, lastCall'.periodIndex), lastCall'.field)
            = lastCall'.value]_vars
  /\ [](SaveOffered => ENABLED HandleSave)
  /\ [][(~isSaving /\ isSaving') => (inFlight' # {} /\ conflicts' = conflicts)]_vars

\* a save invoked while a message was shown has issued its six writes
C23_Witness ==
  /\ isSaving
  /\ conflicts # <<>>
  /\ lastCall.op = "updateSlot"
  /\ lastCall.emitted # <<>>
  /\ Len(issued) = Len(DAYS)
  /\ "teacher_id" \in DOMAIN issued[1].periods[1]
  /\ issued[1].periods[1].teacher_id = lastCall.value

\* C24: a write issued for class B never carries slot content hydrated from
\* class A's records.  Class B has no records and, as long as no cell has
\* been edited, a grid of class B holds nothing but defaults: every write
\* that carries the class id of B then has only default periods.
C24_NoForeignGridWritten ==
  (lastCall = NoCall /\ storeAtSave["B"] = <<>>) =>
    \A k \in 1..Len(issued) :
      issued[k].class = "B" =>
        \A i \in PeriodIdx : issued[k].periods[i + 1] = DefaultPeriod(i)

\* C25: when the reads of two classes overlap, then once every read has
\* been answered the grid is the hydration of the selected class, whatever
\* the order of the answers.  Stated for class B, whose hydration is the
\* default grid and therefore also what a failed read leaves, in runs
\* without edits and saves.
C25_LastSelectionWins ==
  (/\ selectedClass = "B"
   /\ fetches = <<>>
   /\ lastCall = NoCall
   /\ nSaves = 0)
    => timetableGrid = Hydrate(store["B"])

\* the periods handleSave builds for day number k from grid g
PeriodsFrom(g, k) ==
  [n \in 1..PeriodCount |->
     LET slot    == SlotAt(g, DAYS[k], n - 1)
         subject == IF Get(slot, "subject") \in {"", Undef} THEN "" ELSE slot.subject
     IN  IF Get(slot, "teacher_id") \in {"", Undef}
           THEN [startTime |-> DEFAULT_PERIODS[n].startTime,
                 endTime   |-> DEFAULT_PERIODS[n].endTime,
                 subject   |-> subject]
           ELSE [startTime  |-> DEFAULT_PERIODS[n].startTime,
                 endTime    |-> DEFAULT_PERIODS[n].endTime,
                 subject    |-> subject,
                 teacher_id |-> slot.teacher_id]]

\* C27: all writes of one save are derived from one snapshot, the grid as
\* it was when the save was invoked.  The invocation takes the snapshot
\* from the grid of that moment, the snapshot stays the same while the save
\* runs, every write issued carries the periods built from it, and an
\* updateSlot call made while the save runs changes neither the snapshot
\* nor a write already issued.
C27_OneSnapshot ==
  /\ [][(~isSaving /\ isSaving') => saveCtx'.grid = timetableGrid]_vars
  /\ [][(isSaving /\ isSaving') =>
          (saveCtx'.grid = saveCtx.grid /\ IsPrefix(issued, issued'))]_vars
  /\ [](isSaving =>
          \A k \in 1..Len(issued) : issued[k].periods = PeriodsFrom(saveCtx.grid, k))
  /\ [][(EditStep /\ isSaving) => (issued' = issued /\ inFlight' = inFlight)]_vars

\* Tuesday's first cell was edited while the save was running; Tuesday's
\* write carries the subject of the snapshot, not the one of the grid
C27_Witness ==
  /\ isSaving
  /\ Len(issued) = Len(DAYS)
  /\ lastCall.op = "updateSlot"
  /\ lastCall.day = "Tuesday" /\ lastCall.field = "subject"
  /\ lastCall.before = saveCtx.grid
  /\ timetableGrid # saveCtx.grid
  /\ timetableGrid["Tuesday"][0].subject = "Math"
  /\ issued[2].periods[1].subject = "Art"

\* the step in which a save ends on a rejected write
SaveFails ==
  /\ isSaving /\ ~isSaving'
  /\ toasts' = Append(toasts, "Error")

\* C29: an updateSlot call, also one that changes or clears the teacher
\* whose assignment caused a message, and the failure of a save remove no
\* message from the conflict set: every message stays in the set, in its
\* place.
C29_MessagesStay ==
  [][(EditStep \/ SaveFails) => IsPrefix(conflicts, conflicts')]_vars

\* the teacher whose assignment raised the message was cleared from the
\* slot, then a save failed: the message is still in the set
C29_Witness ==
  /\ toasts = <<"Error">>
  /\ lastCall.op = "updateSlot"
  /\ lastCall.field = "teacher_id" /\ lastCall.value = ""
  /\ lastCall.before[lastCall.day][lastCall.periodIndex].teacher_id = "T2"
  /\ timetableGrid[lastCall.day][lastCall.periodIndex].teacher_id = ""
  /\ conflicts = << <<"Bob", " is already assigned at ", "08:00", " on ", lastCall.day>> >>

\* C30: provided every write is answered, every save ends with isSaving
\* false, whether its writes all succeed or one fails; isSaving is true
\* exactly while a write of the save is awaited; and while it is true the
\* Save button starts no second save.
C30_SaveEnds ==
  /\ isSaving ~> ~isSaving
  /\ [](isSaving <=> inFlight # {})
  /\ [](isSaving => ~ENABLED HandleSave)

\* one save ended on a rejected write of Wednesday, a second one has been
\* started after it and has ended with all its writes succeeded
C30_Witness ==
  /\ nSaves = 2
  /\ ~isSaving
  /\ inFlight = {}
  /\ toasts = <<"Success">>
  /\ Len(issued) = Len(DAYS)
  /\ \E k \in 1..Len(storeAtSave[issued[1].class]) :
       storeAtSave[issued[1].class][k] = StoredRecord(issued[2])
  /\ storeAtSave[issued[1].class] # store[issued[1].class]

(***************************************************************************)
(* Properties of the edit-and-save scenario (ScenarioSpec)                 *)
(***************************************************************************)
LastWritten(day, i, f) ==
  IF <<day, i, f>> \in DOMAIN written THEN written[<<day, i, f>>] ELSE ""

OnlyEnglishT7 ==
  /\ DOMAIN written = {<<"Wednesday", 3, "subject">>, <<"Wednesday", 3, "teacher_id">>}
  /\ written[<<"Wednesday", 3, "subject">>] = "English"
  /\ written[<<"Wednesday", 3, "teacher_id">>] = "T7"

\* C18: starting from the grid hydrated from no records, after any sequence
\* of updateSlot calls on valid cells the records built for a save are one
\* per day in DAYS order with periodCount periods, and period i of day d
\* carries the value last written to each field of slot (d, i), "" for a
\* field never written; when (Wednesday, 3) was set to English and T7 and
\* nothing else, Wednesday's period 3 is {English, T7} and every other
\* period of the six records is default.
C18_EditsThenSave ==
  pc = "serialized" =>
    /\ Len(payload) = Len(DAYS)
    /\ \A k \in 1..Len(DAYS) :
         /\ payload[k].day = DAYS[k]
         /\ Len(payload[k].periods) = PeriodCount
         /\ \A i \in PeriodIdx :
              LET p == payload[k].periods[i + 1]
              IN  /\ p.startTime = DEFAULT_PERIODS[i + 1].startTime
                  /\ p.endTime = DEFAULT_PERIODS[i + 1].endTime
                  /\ p.subject = LastWritten(DAYS[k], i, "subject")
                  /\ OrEmpty(Get(p, "teacher_id")) = LastWritten(DAYS[k], i, "teacher_id")
    /\ OnlyEnglishT7 =>
         \A k \in 1..Len(DAYS) : \A i \in PeriodIdx :
           payload[k].periods[i + 1] =
             IF DAYS[k] = "Wednesday" /\ i = 3
               THEN [startTime |-> "10:30", endTime |-> "11:15",
                     subject |-> "English", teacher_id |-> "T7"]
               ELSE DefaultPeriod(i)

\* the records were built after (Wednesday, 3) had been set to English and T7
C18_Witness ==
  /\ pc = "serialized"
  /\ OnlyEnglishT7
  /\ payload[3].day = "Wednesday"
  /\ payload[3].periods[4].subject = "English"
  /\ payload[3].periods[4].teacher_id = "T7"
  /\ payload[2].periods[4] = DefaultPeriod(3)

(***************************************************************************)
(* Properties of the page with the school selector (SchoolSpec)            *)
(***************************************************************************)
\* C26: every write carries a class id and a school id that belong
\* together: the class is one of the classes of the school.
C26_ClassOfSchool ==
  \A k \in 1..Len(issued) : issued[k].class \in ClassesOf(issued[k].school_id)

\* C28: unsaved edits are discarded only by a change of the selected class:
\* a step that leaves the selected class as it is starts no read of the
\* timetable, so nothing re-hydrates the grid over the edits.
C28_OnlyClassChangeRehydrates ==
  [][selectedClass' = selectedClass => Len(fetches') <= Len(fetches)]_vars

====
